---- MODULE Spec2Model ----
(***************************************************************************)
(* Batch image transcoding tools of mypic-puzzles-assets.                  *)
(*                                                                         *)
(*   - the in-place PNG -> WebP converter (pyqt_convert_png_to_webp.py):   *)
(*     MainWindow (UI thread) and ConverterWorker.run (worker thread)      *)
(*     acting on one folder and its sibling backup folder;                 *)
(*   - the size computation of DeltaPix._apply_resize (delta_pix.py),      *)
(*     with Python's binary64 float arithmetic emulated limb by limb.      *)
(***************************************************************************)
EXTENDS Integers, Sequences, FiniteSets, TLC

(***************************************************************************)
(* Python float arithmetic (IEEE-754 binary64, round-half-to-even).        *)
(* A positive float is [e |-> exponent of the leading bit,                 *)
(*                      m |-> <<l1, l2, l3, l4>>]                          *)
(* whose 53-bit significand is l1*2^42 + l2*2^28 + l3*2^14 + l4 with       *)
(* 2^10 <= l1 < 2^11 and l2, l3, l4 < 2^14; it stands for                  *)
(* significand * 2^(e - 52).  Every intermediate value stays below 2^31.   *)
(***************************************************************************)
Limb == 2^14
TopLimb == 2^10

RECURSIVE Pow2(_)
Pow2(n) == IF n <= 0 THEN 1 ELSE 2 * Pow2(n - 1)

\* number of binary digits of n >= 0
RECURSIVE BitLen(_)
BitLen(n) == IF n = 0 THEN 0 ELSE 1 + BitLen(n \div 2)

\* number of doublings that bring n up to at least d (0 < n < d)
RECURSIVE Doublings(_, _)
Doublings(n, d) == IF n >= d THEN 0 ELSE 1 + Doublings(2 * n, d)

HalfCmp(rem, d) == IF 2 * rem > d THEN 1 ELSE IF 2 * rem = d THEN 0 ELSE -1

\* round-half-to-even of the significand m with exponent e, given how the
\* discarded tail compares with half a unit in the last place:
\* cmp = -1 (below), 0 (exactly half), 1 (above)
RoundFloat(e, m, cmp) ==
    LET up == (cmp = 1) \/ (cmp = 0 /\ m[4] % 2 = 1)
        s4 == m[4] + 1
        s3 == m[3] + s4 \div Limb
        s2 == m[2] + s3 \div Limb
        s1 == m[1] + s2 \div Limb
    IN  IF ~up THEN [e |-> e, m |-> m]
        ELSE IF s1 = 2 * TopLimb
             THEN [e |-> e + 1, m |-> <<TopLimb, 0, 0, 0>>]
             ELSE [e |-> e, m |-> <<s1, s2 % Limb, s3 % Limb, s4 % Limb>>]

\* float(n): exact for the integers of the model (0 < n < 2^25)
FromInt(n) ==
    LET e == BitLen(n) - 1
    IN  IF e <= 10
        THEN [e |-> e, m |-> <<n * Pow2(10 - e), 0, 0, 0>>]
        ELSE [e |-> e, m |-> <<n \div Pow2(e - 10),
                               (n % Pow2(e - 10)) * Pow2(24 - e), 0, 0>>]

\* Python's n / d for integers n, d > 0: the correctly rounded quotient,
\* by long division, 14 bits at a time
TrueDiv(n, d) ==
    LET e  == IF n >= d THEN BitLen(n \div d) - 1 ELSE -Doublings(n, d)
        nn == IF e <= 10 THEN n * Pow2(10 - e) ELSE n
        dd == IF e <= 10 THEN d ELSE d * Pow2(e - 10)
        l1 == nn \div dd
        r1 == nn % dd
        l2 == (r1 * Limb) \div dd
        r2 == (r1 * Limb) % dd
        l3 == (r2 * Limb) \div dd
        r3 == (r2 * Limb) % dd
        l4 == (r3 * Limb) \div dd
        r4 == (r3 * Limb) % dd
    IN  RoundFloat(e, <<l1, l2, l3, l4>>, HalfCmp(r4, dd))

\* Python's k * f for an integer k >= 1 and a float f: k converts to float
\* exactly and the exact product is rounded once
MulInt(k, f) ==
    LET t4 == f.m[4] * k
        t3 == f.m[3] * k + t4 \div Limb
        t2 == f.m[2] * k + t3 \div Limb
        t1 == f.m[1] * k + t2 \div Limb
        p2 == t2 % Limb
        p3 == t3 % Limb
        p4 == t4 % Limb
        x  == BitLen(t1) - 11
        sh == Pow2(x)
        u2 == (t1 % sh) * Limb + p2
        u3 == (u2 % sh) * Limb + p3
        u4 == (u3 % sh) * Limb + p4
        tail == u4 % sh
    IN  IF x = 0 THEN [e |-> f.e, m |-> <<t1, p2, p3, p4>>]
        ELSE RoundFloat(f.e + x,
                        <<t1 \div sh, u2 \div sh, u3 \div sh, u4 \div sh>>,
                        HalfCmp(tail, sh))

\* Python's f < g for positive floats
FloatLess(f, g) ==
    \/ f.e < g.e
    \/ /\ f.e = g.e
       /\ \E k \in 1..4 :
            /\ f.m[k] < g.m[k]
            /\ \A j \in 1..(k - 1) : f.m[j] = g.m[j]

\* Python's min(f, g): g if g < f, else f
FloatMin(f, g) == IF FloatLess(g, f) THEN g ELSE f

\* Python's int(f) for a positive float below 2^25: truncation
IntOf(f) ==
    IF f.e < 0 THEN 0
    ELSE IF f.e <= 10 THEN f.m[1] \div Pow2(10 - f.e)
    ELSE f.m[1] * Pow2(f.e - 10) + f.m[2] \div Pow2(24 - f.e)

Max(a, b) == IF a >= b THEN a ELSE b


(***************************************************************************)
(* DeltaPix._apply_resize (delta_pix.py), as a function on image sizes.    *)
(***************************************************************************)

\* lines 567-571: percentage step, int(w * pct / 100) clamped to 1
PercentStep(size, pct) ==
    IF pct # 100
    THEN <<Max(1, IntOf(TrueDiv(size[1] * pct, 100))),
           Max(1, IntOf(TrueDiv(size[2] * pct, 100)))>>
    ELSE size

\* mutant: the height bound overrides the width bound, without min
BoxScale_LastWins(size, max_w, max_h) ==
    LET s0 == FromInt(1)
        s1 == IF max_w > 0 /\ size[1] > max_w
              THEN FloatMin(s0, TrueDiv(max_w, size[1])) ELSE s0
    IN  IF max_h > 0 /\ size[2] > max_h
        THEN TrueDiv(max_h, size[2]) ELSE s1

\* lines 575-579: the float `scale` of the bounding-box step
BoxScale(size, max_w, max_h) ==
    LET s0 == FromInt(1)
        s1 == IF max_w > 0 /\ size[1] > max_w
              THEN FloatMin(s0, TrueDiv(max_w, size[1])) ELSE s0
    IN  IF max_h > 0 /\ size[2] > max_h
        THEN FloatMin(s1, TrueDiv(max_h, size[2])) ELSE s1

\* lines 573-583: bounding-box step, int(w * scale), int(h * scale)
BoxStep(size, max_w, max_h) ==
    IF max_w > 0 \/ max_h > 0
    THEN LET scale == BoxScale(size, max_w, max_h)
         IN  IF FloatLess(scale, FromInt(1))
             THEN <<IntOf(MulInt(size[1], scale)), IntOf(MulInt(size[2], scale))>>
             ELSE size
    ELSE size

\* size of the image _apply_resize returns for an image of the given size
_apply_resize(size, pct, max_w, max_h) ==
    BoxStep(PercentStep(size, pct), max_w, max_h)


(***************************************************************************)
(* Bounds of the model.                                                    *)
(***************************************************************************)
MaxContent == 2     \* distinct PNG byte contents 1..MaxContent
MaxRuns == 2        \* batches started from the window
MaxFaults == 2      \* file or codec operations that raise, over a behaviour
MaxApply == 2       \* successive applications of _apply_resize
MaxDim == 6         \* image widths and heights 1..MaxDim, and ExtraDims
MaxBox == 4         \* max_width and max_height 0..MaxBox, and ExtraBoxes
MaxSources == 2     \* image files on disk, and paths of one import, for DeltaPix
MaxSaveFaults == 1  \* _save_one calls that raise, over an export

(***************************************************************************)
(* File names and file contents.                                           *)
(* A file name is [stem, ext]; os.path.splitext(f)[0] + ".webp" keeps the  *)
(* stem and replaces the extension.  Contents are tuples.                  *)
(***************************************************************************)
Stems == {"a", "b"}
PngName(k) == [stem |-> k, ext |-> ".png"]
PngNames == {PngName(k) : k \in Stems}
WebpNames == {[stem |-> k, ext |-> ".webp"] : k \in Stems}
FolderNames == PngNames \cup WebpNames

NoFile == <<>>
Png(c) == <<"png", c>>
PngContents == {Png(c) : c \in 1..MaxContent}
Webp(c, lossless) == <<"webp", c, lossless>>
OldWebp == Webp(0, TRUE)    \* an output left by an earlier, unknown run
Partial == <<"partial">>    \* a file opened for writing and not completed

\* line 64: f.lower().endswith(".png")
IsPng(f) == f.ext = ".png"
\* line 85: os.path.splitext(fname)[0] + ".webp"
dst_name(fname) == [stem |-> fname.stem, ext |-> ".webp"]

\* all orders in which os.listdir may return the set S
RECURSIVE Orders(_)
Orders(S) ==
    IF S = {} THEN {<<>>}
    ELSE UNION {{<<x>> \o o : o \in Orders(S \ {x})} : x \in S}

(***************************************************************************)
(* DeltaPix (delta_pix.py): paths, file contents and the pure parts of the *)
(* export.  A path is a directory, a base name and an extension; a decoded *)
(* image or an image file is <<"img", format, colour mode, pixels>>, the   *)
(* pixels named by the file they were first read from.                     *)
(***************************************************************************)
Dirs == {"d1", "d2"}
Bases == {"a", "b"}
\* line 20
SUPPORTED_EXT == {".png", ".jpg", ".jpeg", ".webp"}
Exts == {".png", ".jpg", ".webp"}
XPaths == [dir : Dirs, base : Bases, ext : Exts]
XPath(d, b, e) == [dir |-> d, base |-> b, ext |-> e]
NoPath == [dir |-> "", base |-> "", ext |-> ""]
\* the files that may exist before the tool is used: two of the same base
\* name in one folder, one of that name in another folder, one other
SourcePaths == {XPath("d1", "a", ".png"), XPath("d1", "a", ".jpg"),
                XPath("d2", "a", ".png"), XPath("d1", "b", ".png")}

Formats == {"PNG", "JPEG", "WEBP"}
Img(fmt, mode, px) == <<"img", fmt, mode, px>>
Corrupt == <<"corrupt">>
IsImg(c) == c # NoFile /\ c[1] = "img"
ModeOf(im) == im[3]
AlphaModes == {"RGBA", "LA", "P"}
FormatOfExt(e) == IF e = ".png" THEN "PNG" ELSE IF e = ".jpg" THEN "JPEG" ELSE "WEBP"
\* what each of the SourcePaths may hold: an image in a colour mode its
\* format decodes to (with alpha, grey, indexed, plain RGB), or bytes that do
\* not decode
ModesOf(path) ==
    IF path.ext = ".jpg" THEN {"RGB"}
    ELSE IF path.dir = "d2" THEN {"P"}
    ELSE IF path.base = "a" THEN {"RGBA", "L"}
    ELSE {"RGBA"}
MayBeCorrupt(path) == path.dir = "d1" /\ path.ext = ".png"
SourceContents(path) ==
    (IF MayBeCorrupt(path) THEN {Corrupt} ELSE {})
    \cup {Img(FormatOfExt(path.ext), m, path) : m \in ModesOf(path)}

\* lines 25-26
is_image_file(path) == path.ext \in SUPPORTED_EXT

\* lines 28-37: a decoded copy, or None (NoFile) when Image.open or load raises
load_image(files, path) == IF IsImg(files[path]) THEN files[path] ELSE NoFile

\* Image.convert(mode): same pixels in the given mode
convert(im, mode) == Img(im[2], mode, im[4])

\* Image.save(target, fmt): the encoder writes the image in the mode it is handed
Encoded(im, fmt) == Img(fmt, ModeOf(im), im[4])

\* lines 463-476, the loop over paths: existing image files not yet listed
\* are appended
RECURSIVE _add_files(_, _, _)
_add_files(files, imgs, paths) ==
    IF paths = <<>> THEN imgs
    ELSE LET q == Head(paths)
             skip == files[q] = NoFile \/ ~is_image_file(q)
             listed == \E n \in 1..Len(imgs) : imgs[n] = q
         IN  _add_files(files, IF skip \/ listed THEN imgs ELSE Append(imgs, q), Tail(paths))

\* lines 275-281: the checked formats in dialog order, PNG when none is checked
current_settings(png, jpg, webp, drop) ==
    LET fmts == (IF png THEN <<"PNG">> ELSE <<>>) \o (IF jpg THEN <<"JPEG">> ELSE <<>>)
                \o (IF webp THEN <<"WEBP">> ELSE <<>>)
    IN  [formats |-> IF fmts = <<>> THEN <<"PNG">> ELSE fmts, drop_alpha |-> drop]

\* line 620 (and line 545)
ExtOf(fmt) == IF fmt = "PNG" THEN ".png" ELSE IF fmt = "JPEG" THEN ".jpg" ELSE ".webp"

\* lines 618 and 621: os.path.join(out_dir, base + ext), base being the
\* source's file name without its extension
out_path(out_dir, path, fmt) == XPath(out_dir, path.base, ExtOf(fmt))

\* mutant: only the drop_alpha check box decides
NeedsRGB_DropAlphaOnly(drop_alpha, fmt) == drop_alpha

\* line 589: cfg.drop_alpha or fmt == "JPEG"
NeedsRGB(drop_alpha, fmt) == drop_alpha \/ fmt = "JPEG"

\* what a raising call leaves at the target: the file as it was (the
\* exception came before Image.save opened it, or save removed the file it
\* had created), or a half-written file
LeftBySave(files, target) == {files[target], Partial}

\* lines 586-609.  im is the image prepared for the encoder; _apply_resize
\* (line 591) keeps its mode and pixels.  Every exception is turned into
\* (False, message).
_save_one(files, img, target, fmt, xc, may_raise) ==
    LET im == IF NeedsRGB(xc.drop_alpha, fmt) THEN convert(img, "RGB") ELSE img
        saved == [files |-> [files EXCEPT ![target] = Encoded(im, fmt)],
                  ok |-> TRUE, mode |-> ModeOf(im)]
        failed == {[files |-> [files EXCEPT ![target] = left],
                    ok |-> FALSE, mode |-> ModeOf(im)] : left \in LeftBySave(files, target)}
    IN  IF may_raise THEN {saved} \cup failed ELSE {saved}

\* mutant: one entry per requested format
OpenErrors_PerFormat(path, formats) == [n \in 1..Len(formats) |-> <<"open", path>>]

\* lines 615-617: errors.append("Open failed: <path>"); continue
OpenErrors(path, formats) == <<(<<"open", path>>)>>

\* mutant: the loop over the formats is left at the first failure
NextFormat_BreakOnFailure(f, ok, formats) == IF ok THEN f + 1 ELSE Len(formats) + 1

\* line 619: for fmt in cfg.formats, whatever _save_one returned
NextFormat(f, ok, formats) == f + 1

(***************************************************************************)
(* State.                                                                  *)
(***************************************************************************)
VARIABLES
    folderExists,    \* os.path.isdir(folder)
    folder,          \* FolderNames -> content: the files of the folder
    backupExists,    \* the sibling <folder>_PNG directory exists
    backup,          \* PngNames -> content: the files of <folder>_PNG
    selected_folder, \* MainWindow.selected_folder is set
    btn_convert,     \* MainWindow.btn_convert is enabled
    btn_pick,        \* MainWindow.btn_pick is enabled
    btn_stop,        \* MainWindow.btn_stop is enabled
    worker,          \* MainWindow.worker is not None
    inbox,           \* done/error signals queued for the UI thread
    cfg,             \* ConverterWorker.cfg
    stopped,         \* ConverterWorker._stopped
    pc,              \* position of the worker thread inside run()
    pngs,            \* run(): the list pngs
    i,               \* run(): loop index, 1-based
    converted,       \* run(): the counter converted
    log,             \* history: log lines emitted by the current worker
    progress,        \* history: progress values emitted by the current worker
    doneEv,          \* history: values of the done signal of the current worker
    errorEv,         \* history: number of error signals of the current worker
    ops,             \* history: file and codec operations of the current worker
    encodedFrom,     \* history: stem -> bytes _convert_one decoded, this run
    fs0,             \* history: the files at the start of the current batch
    stop_i,          \* history: the item in flight at the first stop(), 0 when
                     \* none was, -1 when run() had already returned
    faults,          \* history: operations that raised so far
    prev,            \* history: summary of the previous batch
    runs,            \* history: batches started
    run_limit,       \* batches the user starts at most
    rs,              \* resize: [size, pct, max_w, max_h]
    rs_prev,         \* resize: size before the last _apply_resize
    rs_n,            \* resize: applications of _apply_resize so far
    xfiles,          \* DeltaPix: XPaths -> content, the files on disk
    images,          \* DeltaPix.images
    xcfg,            \* export: the ExportSettings of the dialog
    out_dir,         \* export: the output folder chosen
    xpc,             \* export: position of the UI thread in the export
    xi,              \* _export_batch: index of the source, 1-based
    xf,              \* _export_batch: index of the format, 1-based
    ximg,            \* _export_batch: the decoded source img
    errors,          \* _export_batch: the list errors
    attempts,        \* history: the calls that reached _save_one or an encoder
    xfiles0,         \* history: the files when the export began
    xfaults          \* history: calls that raised so far

fsvars == <<folderExists, folder, backupExists, backup>>
uivars == <<selected_folder, btn_convert, btn_pick, btn_stop, worker, inbox>>
wkvars == <<cfg, stopped, pc, pngs, i, converted>>
hvars == <<log, progress, doneEv, errorEv, ops, encodedFrom, fs0, stop_i, faults, prev, runs, run_limit>>
rsvars == <<rs, rs_prev, rs_n>>
exvars == <<xfiles, images, xcfg, out_dir, xpc, xi, xf, ximg, errors, attempts, xfiles0, xfaults>>
vars == <<fsvars, uivars, wkvars, hvars, rsvars, exvars>>

NoCfg == [keep_backup |-> FALSE, overwrite |-> FALSE, no_alpha |-> FALSE]
NoPrev == [keep_backup |-> FALSE, overwrite |-> FALSE, relocated |-> {}, late |-> FALSE]
Snapshot == [folderExists |-> folderExists, folder |-> folder,
             backupExists |-> backupExists, backup |-> backup]

\* the window right after MainWindow.__init__ (lines 124-194)
InitWindow ==
    /\ selected_folder = FALSE
    /\ btn_convert = FALSE
    /\ btn_pick = TRUE
    /\ btn_stop = FALSE
    /\ worker = FALSE
    /\ inbox = <<>>
    /\ cfg = NoCfg
    /\ stopped = FALSE
    /\ pc = "none"
    /\ pngs = <<>>
    /\ i = 0
    /\ converted = 0
    /\ log = <<>>
    /\ progress = <<>>
    /\ doneEv = <<>>
    /\ errorEv = 0
    /\ ops = {}
    /\ encodedFrom = [k \in Stems |-> NoFile]
    /\ stop_i = 0
    /\ faults = 0
    /\ prev = NoPrev
    /\ runs = 0

\* the bytes of a file left in the backup folder by an earlier run
StaleContent == Png(MaxContent)

\* any folder the user may point the tool at: PNG files, outputs of earlier
\* runs, and a backup folder that may already hold files
InitFiles ==
    /\ folderExists \in BOOLEAN
    /\ folder \in [FolderNames -> PngContents \cup {NoFile, OldWebp}]
    /\ \A f \in FolderNames :
         /\ ~folderExists => folder[f] = NoFile
         /\ IsPng(f) => folder[f] # OldWebp
         /\ ~IsPng(f) => folder[f] \in {NoFile, OldWebp}
    /\ backupExists \in BOOLEAN
    /\ backup \in [PngNames -> {NoFile, StaleContent}]
    /\ ~backupExists => \A f \in PngNames : backup[f] = NoFile
    /\ fs0 = Snapshot

NoResize ==
    /\ rs = [size |-> <<1, 1>>, pct |-> 100, max_w |-> 0, max_h |-> 0]
    /\ rs_prev = <<1, 1>>
    /\ rs_n = 0

NoXFiles == [q \in XPaths |-> NoFile]
NoXCfg == [formats |-> <<"PNG">>, drop_alpha |-> FALSE]

\* DeltaPix right after DeltaPix.__init__ (lines 295-330), on given files
InitDeltaPix ==
    /\ images = <<>>
    /\ xcfg = NoXCfg
    /\ out_dir = ""
    /\ xpc = "idle"
    /\ xi = 0
    /\ xf = 0
    /\ ximg = NoFile
    /\ errors = <<>>
    /\ attempts = <<>>
    /\ xfiles0 = xfiles
    /\ xfaults = 0

NoExport == xfiles = NoXFiles /\ InitDeltaPix

\* one batch on any folder
Init == InitWindow /\ InitFiles /\ NoResize /\ NoExport /\ run_limit = 1


(***************************************************************************)
(* MainWindow: handlers run on the UI thread, one at a time.               *)
(***************************************************************************)

\* lines 196-203; ok = FALSE is the dialog being cancelled
pick_folder ==
    /\ btn_pick
    /\ \E ok \in BOOLEAN :
         IF ok
         THEN /\ selected_folder' = TRUE
              /\ btn_convert' = TRUE
         ELSE UNCHANGED <<selected_folder, btn_convert>>
    /\ UNCHANGED <<btn_pick, btn_stop, worker, inbox>>
    /\ UNCHANGED <<fsvars, wkvars, hvars, rsvars, exvars>>

\* what the batch that just ended did, kept when the next one starts
Summary ==
    [keep_backup |-> cfg.keep_backup, overwrite |-> cfg.overwrite,
     relocated |-> {k \in Stems : /\ <<"moved", k>> \in ops
                                  /\ \E n \in 1..Len(log) : log[n] = <<"Converted", k>>},
     late |-> stopped /\ stop_i = -1]

\* lines 205-243: lock the UI, build a ConverterWorker (lines 30-34) from the
\* check boxes and start its thread
start_convert ==
    /\ btn_convert
    /\ runs < run_limit
    /\ IF ~selected_folder
       THEN UNCHANGED <<uivars, wkvars, hvars>>
       ELSE /\ \E kb \in BOOLEAN, ow \in BOOLEAN, na \in BOOLEAN :
                 cfg' = [keep_backup |-> kb, overwrite |-> ow, no_alpha |-> na]
            /\ btn_convert' = FALSE
            /\ btn_pick' = FALSE
            /\ btn_stop' = TRUE
            /\ worker' = TRUE
            /\ stopped' = FALSE
            /\ pc' = "start"
            /\ pngs' = <<>>
            /\ i' = 0
            /\ converted' = 0
            /\ log' = <<>>
            /\ progress' = <<>>
            /\ doneEv' = <<>>
            /\ errorEv' = 0
            /\ ops' = {}
            /\ encodedFrom' = [k \in Stems |-> NoFile]
            /\ fs0' = Snapshot
            /\ stop_i' = 0
            /\ prev' = IF runs = 0 THEN NoPrev ELSE Summary
            /\ UNCHANGED <<faults, run_limit>>
            /\ runs' = runs + 1
            /\ UNCHANGED <<selected_folder, inbox>>
    /\ UNCHANGED <<fsvars, rsvars, exvars>>

\* mutant: the worker is stopped without testing that there is one
HasWorker_Untested == TRUE

\* line 246: if self.worker
HasWorker == worker

\* lines 245-248, with ConverterWorker.stop (lines 36-37).  The slot does not
\* test the Stop button: a request may come when no batch is running.
stop_convert ==
    /\ IF HasWorker
       THEN /\ stopped' = TRUE
            /\ stop_i' = IF stopped THEN stop_i
                          ELSE IF pc = "item" THEN i
                          ELSE IF pc = "finished" THEN -1
                          ELSE stop_i
       ELSE UNCHANGED <<stopped, stop_i>>
    /\ UNCHANGED <<cfg, pc, pngs, i, converted>>
    /\ UNCHANGED <<log, progress, doneEv, errorEv, ops, encodedFrom, fs0, faults, prev, runs, run_limit>>
    /\ UNCHANGED <<fsvars, uivars, rsvars, exvars>>

\* mutant: the reference to the worker is kept
_unlock_ui_KeepsWorker ==
    /\ btn_convert' = selected_folder
    /\ btn_pick' = TRUE
    /\ btn_stop' = FALSE
    /\ worker' = worker
    /\ UNCHANGED selected_folder

\* lines 258-266
_unlock_ui ==
    /\ btn_convert' = selected_folder
    /\ btn_pick' = TRUE
    /\ btn_stop' = FALSE
    /\ worker' = FALSE
    /\ UNCHANGED selected_folder

\* lines 250-252: the queued done signal reaches the UI thread
on_done ==
    /\ inbox # <<>>
    /\ Head(inbox)[1] = "done"
    /\ inbox' = Tail(inbox)
    /\ _unlock_ui
    /\ UNCHANGED <<fsvars, wkvars, hvars, rsvars, exvars>>

\* lines 254-256: the queued error signal reaches the UI thread
on_error ==
    /\ inbox # <<>>
    /\ Head(inbox)[1] = "error"
    /\ inbox' = Tail(inbox)
    /\ _unlock_ui
    /\ UNCHANGED <<fsvars, wkvars, hvars, rsvars, exvars>>

(***************************************************************************)
(* ConverterWorker.run on the worker thread, one step per blocking         *)
(* operation; stop() may come between any two steps.                       *)
(***************************************************************************)
Emit(line) == log' = Append(log, line)
EmitDone(n) ==
    /\ doneEv' = Append(doneEv, n)
    /\ inbox' = Append(inbox, <<"done", n>>)
    /\ UNCHANGED errorEv
EmitError ==
    /\ errorEv' = errorEv + 1
    /\ inbox' = Append(inbox, <<"error", 0>>)
    /\ UNCHANGED doneEv
uiwidgets == <<selected_folder, btn_convert, btn_pick, btn_stop, worker>>

\* mutant: the folder check is left out
FolderMissing_Unchecked == FALSE

\* line 56: not os.path.isdir(folder)
FolderMissing == ~folderExists

\* lines 54-78: folder check, listing, backup folder creation
RunBegin ==
    /\ pc = "start"
    /\ IF FolderMissing
       THEN \* lines 56-58
            /\ EmitError
            /\ pc' = "finished"
            /\ UNCHANGED <<pngs, i, converted, log, ops, faults, fsvars>>
       ELSE \E order \in Orders({f \in FolderNames : IsPng(f) /\ folder[f] # NoFile}) :
            /\ pngs' = order
            /\ IF Len(order) = 0
               THEN \* lines 66-69
                    /\ Emit(<<"NoPng", "">>)
                    /\ EmitDone(0)
                    /\ pc' = "finished"
                    /\ UNCHANGED <<i, converted, ops, faults, fsvars>>
               ELSE IF ~cfg.keep_backup
               THEN \* lines 71-72, 78
                    /\ Emit(<<"Mode", "">>)
                    /\ pc' = "loop"
                    /\ i' = 1
                    /\ converted' = 0
                    /\ UNCHANGED <<ops, faults, fsvars, inbox, doneEv, errorEv>>
               ELSE \* lines 74-76: makedirs may raise when it has to create
                    \E ok \in IF backupExists \/ faults >= MaxFaults THEN {TRUE} ELSE BOOLEAN :
                    IF ok
                    THEN /\ backupExists' = TRUE
                         /\ UNCHANGED faults
                         /\ ops' = ops \cup {<<"makedirs", "">>}
                         /\ log' = log \o <<(<<"Mode", "">>), (<<"Backup", "">>)>>
                         /\ pc' = "loop"
                         /\ i' = 1
                         /\ converted' = 0
                         /\ UNCHANGED <<folderExists, folder, backup, inbox, doneEv, errorEv>>
                    ELSE \* lines 119-120
                         /\ Emit(<<"Mode", "">>)
                         /\ ops' = ops \cup {<<"makedirs", "">>}
                         /\ EmitError
                         /\ faults' = faults + 1
                         /\ pc' = "finished"
                         /\ UNCHANGED <<i, converted, fsvars>>
    /\ UNCHANGED <<cfg, stopped, progress, encodedFrom, fs0, stop_i, prev, runs, run_limit>>
    /\ UNCHANGED <<uiwidgets, rsvars, exvars>>

\* mutant: a failed item ends the loop
LoopEnds_AfterFailure ==
    \/ i > Len(pngs)
    \/ (log # <<>> /\ log[Len(log)][1] = "Failed")

\* line 79: the for loop has run out of items
LoopEnds == i > Len(pngs)

\* mutant: the flag is never tested
StopSeen_Never == FALSE

\* line 80: if self._stopped
StopSeen == stopped

\* lines 79-82 and 118: next item, or leave the loop and emit done
LoopTest ==
    /\ pc = "loop"
    /\ IF LoopEnds
       THEN /\ EmitDone(converted)
            /\ pc' = "finished"
            /\ UNCHANGED log
       ELSE IF StopSeen
       THEN /\ Emit(<<"Stopped", "">>)
            /\ EmitDone(converted)
            /\ pc' = "finished"
       ELSE /\ pc' = "item"
            /\ UNCHANGED <<log, inbox, doneEv, errorEv>>
    /\ UNCHANGED <<cfg, stopped, pngs, i, converted>>
    /\ UNCHANGED <<progress, ops, encodedFrom, fs0, stop_i, faults, prev, runs, run_limit>>
    /\ UNCHANGED <<fsvars, uiwidgets, rsvars, exvars>>

\* mutant: int(total * 100 / i)
Percent_Swapped(n, total) == IntOf(TrueDiv(total * 100, n))

\* line 91 and line 116: int(i * 100 / total)
Percent(n, total) == IntOf(TrueDiv(n * 100, total))

\* lines 44-51: the WebP bytes written for decodable PNG bytes; lossy RGB
\* when no_alpha, lossless otherwise
_convert_one(src_bytes, no_alpha) == Webp(src_bytes[2], ~no_alpha)

(***************************************************************************)
(* The body of one loop iteration (lines 84-116).  It reads no state that  *)
(* the UI thread writes, so it is one step of the worker.  Its parts are   *)
(* relations on a record w of what the iteration has done so far:          *)
(* the files, the lines logged, the operations attempted, the bytes        *)
(* decoded, whether the item was converted, whether an exception is        *)
(* propagating, and the number of operations that raised.                  *)
(***************************************************************************)
Begin == [folder |-> folder, backup |-> backup, lines |-> <<>>, ops |-> {},
          decoded |-> NoFile, converted |-> FALSE, raised |-> FALSE, faults |-> 0]

MayRaise(w) == IF faults + w.faults < MaxFaults THEN BOOLEAN ELSE {FALSE}

\* mutant: the original is copied to the backup folder, not moved
MoveStep_Copy(w, fname) ==
    IF cfg.keep_backup /\ w.backup[fname] = NoFile
    THEN {IF raise
          THEN [w EXCEPT !.ops = @ \cup {<<"move", fname.stem>>},
                         !.raised = TRUE, !.faults = @ + 1]
          ELSE [w EXCEPT !.backup[fname] = w.folder[fname],
                         !.ops = @ \cup {<<"move", fname.stem>>, <<"moved", fname.stem>>}]
          : raise \in IF w.folder[fname] = NoFile THEN {TRUE} ELSE MayRaise(w)}
    ELSE {w}

\* lines 95-101: shutil.move(src, bak) unless bak exists
MoveStep(w, fname) ==
    IF cfg.keep_backup /\ w.backup[fname] = NoFile
    THEN {IF raise
          THEN [w EXCEPT !.ops = @ \cup {<<"move", fname.stem>>},
                         !.raised = TRUE, !.faults = @ + 1]
          ELSE [w EXCEPT !.backup[fname] = w.folder[fname],
                         !.folder[fname] = NoFile,
                         !.ops = @ \cup {<<"move", fname.stem>>, <<"moved", fname.stem>>}]
          : raise \in IF w.folder[fname] = NoFile THEN {TRUE} ELSE MayRaise(w)}
    ELSE {w}

\* lines 103-105: _convert_one(src_for_convert, dst); Image.open raises, or
\* im.save raises after it has opened dst for writing (it removes a file it
\* created itself, or leaves it, depending on the Pillow version)
ConvertStep(w, fname) ==
    LET dst == dst_name(fname)
        src_bytes == IF cfg.keep_backup THEN w.backup[fname] ELSE w.folder[fname]
        ok == [w EXCEPT !.folder[dst] = _convert_one(src_bytes, cfg.no_alpha),
                        !.decoded = src_bytes,
                        !.ops = @ \cup {<<"decode", fname.stem>>, <<"write", fname.stem>>},
                        !.lines = Append(@, <<"Converted", fname.stem>>),
                        !.converted = TRUE]
        open_error == [w EXCEPT !.ops = @ \cup {<<"decode", fname.stem>>},
                                !.raised = TRUE, !.faults = @ + 1]
        save_error == {[w EXCEPT !.folder[dst] = left,
                                 !.ops = @ \cup {<<"decode", fname.stem>>, <<"write", fname.stem>>},
                                 !.raised = TRUE, !.faults = @ + 1]
                       : left \in IF w.folder[dst] = NoFile THEN {NoFile, Partial}
                                                            ELSE {Partial}}
    IN  IF w.raised THEN {w}
        ELSE IF src_bytes \notin PngContents THEN {open_error}
        ELSE IF TRUE \in MayRaise(w) THEN {ok, open_error} \cup save_error
        ELSE {ok}

\* mutant: the original is deleted whether or not the conversion raised
RemoveStep_EvenIfRaised(w, fname) ==
    IF ~cfg.keep_backup /\ w.folder[fname] # NoFile
    THEN {IF raise
          THEN [w EXCEPT !.ops = @ \cup {<<"remove", fname.stem>>},
                         !.lines = Append(@, <<"Warn", fname.stem>>),
                         !.faults = @ + 1]
          ELSE [w EXCEPT !.folder[fname] = NoFile,
                         !.ops = @ \cup {<<"remove", fname.stem>>, <<"removed", fname.stem>>}]
          : raise \in MayRaise(w)}
    ELSE {w}

\* mutant: a failing os.remove is not caught on its own and reaches the
\* outer except of the item
RemoveStep_FailureRaises(w, fname) ==
    IF ~w.raised /\ ~cfg.keep_backup /\ w.folder[fname] # NoFile
    THEN {IF raise
          THEN [w EXCEPT !.ops = @ \cup {<<"remove", fname.stem>>},
                         !.raised = TRUE,
                         !.faults = @ + 1]
          ELSE [w EXCEPT !.folder[fname] = NoFile,
                         !.ops = @ \cup {<<"remove", fname.stem>>, <<"removed", fname.stem>>}]
          : raise \in MayRaise(w)}
    ELSE {w}

\* lines 107-111: os.remove(src) when not keep_backup; its failure is only a
\* warning
RemoveStep(w, fname) ==
    IF ~w.raised /\ ~cfg.keep_backup /\ w.folder[fname] # NoFile
    THEN {IF raise
          THEN [w EXCEPT !.ops = @ \cup {<<"remove", fname.stem>>},
                         !.lines = Append(@, <<"Warn", fname.stem>>),
                         !.faults = @ + 1]
          ELSE [w EXCEPT !.folder[fname] = NoFile,
                         !.ops = @ \cup {<<"remove", fname.stem>>, <<"removed", fname.stem>>}]
          : raise \in MayRaise(w)}
    ELSE {w}

\* lines 113-114: except Exception as e: log Failed
ExceptStep(w, fname) ==
    IF w.raised THEN [w EXCEPT !.lines = Append(@, <<"Failed", fname.stem>>)] ELSE w

\* lines 94-114
TryItem(fname) ==
    {ExceptStep(w3, fname) :
        w3 \in UNION {RemoveStep(w2, fname) :
            w2 \in UNION {ConvertStep(w1, fname) : w1 \in MoveStep(Begin, fname)}}}

\* mutant: self.cfg.overwrite and os.path.exists(dst)
SkipTest_Inverted(dst) == cfg.overwrite /\ folder[dst] # NoFile

\* line 89: not self.cfg.overwrite and os.path.exists(dst)
SkipTest(dst) == ~cfg.overwrite /\ folder[dst] # NoFile

\* lines 84-116: skip test, the try block, progress
ItemBody ==
    /\ pc = "item"
    /\ LET fname == pngs[i]
           dst   == dst_name(fname)
       IN  IF SkipTest(dst)
           THEN \* lines 89-92
                /\ Emit(<<"Skip", dst.stem>>)
                /\ UNCHANGED <<ops, encodedFrom, converted, faults, folder, backup>>
           ELSE \E w \in TryItem(fname) :
                /\ folder' = w.folder
                /\ backup' = w.backup
                /\ log' = log \o w.lines
                /\ ops' = ops \cup w.ops
                /\ encodedFrom' = [encodedFrom EXCEPT ![fname.stem] = w.decoded]
                /\ converted' = IF w.converted THEN converted + 1 ELSE converted
                /\ faults' = faults + w.faults
    /\ progress' = Append(progress, Percent(i, Len(pngs)))
    /\ i' = i + 1
    /\ pc' = "loop"
    /\ UNCHANGED <<folderExists, backupExists>>
    /\ UNCHANGED <<cfg, stopped, pngs>>
    /\ UNCHANGED <<doneEv, errorEv, fs0, stop_i, prev, runs, run_limit>>
    /\ UNCHANGED <<uivars, rsvars, exvars>>

Next ==
    \/ pick_folder
    \/ start_convert
    \/ stop_convert
    \/ on_done
    \/ on_error
    \/ RunBegin
    \/ LoopTest
    \/ ItemBody

Spec == Init /\ [][Next]_vars

\* a folder the tool has not run on yet: PNG files only, each with bytes of
\* its own, no backup folder
FreshContent(f) == IF f.stem = "a" THEN Png(1) ELSE Png(MaxContent)

InitFresh ==
    /\ InitFiles
    /\ folderExists
    /\ ~backupExists
    /\ \A f \in FolderNames : ~IsPng(f) => folder[f] = NoFile
    /\ \A f \in PngNames : folder[f] \in {NoFile, FreshContent(f)}

\* up to MaxRuns batches, one after the other, on a fresh folder
InitRerun == InitWindow /\ InitFresh /\ NoResize /\ NoExport /\ run_limit = MaxRuns
SpecRerun == InitRerun /\ [][Next]_vars


(***************************************************************************)
(* _apply_resize applied to images of bounded sizes.                       *)
(***************************************************************************)
ExtraDims == {22, 49, 60, 100, 1000}
ExtraBoxes == {15, 40, 100}
Dims == (1..MaxDim) \cup ExtraDims
Boxes == (0..MaxBox) \cup ExtraBoxes
\* delta_pix.py line 223: spin_resize.setRange(1, 100)
Percents == {1, 33, 50, 99, 100}

NoFiles ==
    /\ folderExists = FALSE
    /\ folder = [f \in FolderNames |-> NoFile]
    /\ backupExists = FALSE
    /\ backup = [f \in PngNames |-> NoFile]
    /\ fs0 = Snapshot

InitResize ==
    /\ rs \in [size : Dims \X Dims, pct : Percents, max_w : Boxes, max_h : Boxes]
    /\ rs_prev = rs.size
    /\ rs_n = 0

\* _save_one line 591: im = self._apply_resize(im, pct, max_w, max_h);
\* Image.resize raises for a size below 1, so an image always has size >= 1
ApplyResize ==
    /\ rs_n < MaxApply
    /\ rs.size[1] >= 1 /\ rs.size[2] >= 1
    /\ rs' = [rs EXCEPT !.size = _apply_resize(rs.size, rs.pct, rs.max_w, rs.max_h)]
    /\ rs_prev' = rs.size
    /\ rs_n' = rs_n + 1
    /\ UNCHANGED <<fsvars, uivars, wkvars, hvars, exvars>>

NextResize == ApplyResize

InitApply == InitWindow /\ NoFiles /\ InitResize /\ NoExport /\ run_limit = 0
SpecResize == InitApply /\ [][NextResize]_vars


(***************************************************************************)
(* DeltaPix: import, then one export.  The export runs on the UI thread:   *)
(* while it is in progress no other handler runs.                          *)
(***************************************************************************)
PathLists == UNION {[1..n -> SourcePaths] : n \in 0..MaxSources}
xother == <<fsvars, uivars, wkvars, hvars, rsvars>>
Attempt(via, src, fmt, mode, target, ok) ==
    [via |-> via, src |-> src, fmt |-> fmt, mode |-> mode, out |-> target, ok |-> ok]
SaveMayRaise == xfaults < MaxSaveFaults

\* lines 440-450 and 463-476: the files picked in the dialog (none when it is
\* cancelled) go through _add_files
import_files ==
    /\ xpc = "idle"
    /\ \E paths \in PathLists :
         images' = _add_files(xfiles, images, paths)
    /\ UNCHANGED <<xfiles, xcfg, out_dir, xpc, xi, xf, ximg, errors, attempts, xfiles0, xfaults>>
    /\ UNCHANGED xother

\* lines 514-564.  Without a batch there is exactly one image, and
\* self.images[self.current_index] is that image for current_index 0 and -1.
export_dialog ==
    /\ xpc = "idle"
    /\ IF images = <<>>
       THEN UNCHANGED exvars
       ELSE \E accepted \in BOOLEAN, png \in BOOLEAN, jpg \in BOOLEAN,
               webp \in BOOLEAN, drop \in BOOLEAN :
            LET c == current_settings(png, jpg, webp, drop)
                is_batch == Len(images) > 1 \/ Len(c.formats) > 1
            IN  IF ~accepted THEN UNCHANGED exvars
                ELSE IF is_batch
                THEN \* lines 533-539
                     \E d \in Dirs \cup {""} :
                     IF d = "" THEN UNCHANGED exvars
                     ELSE /\ xcfg' = c
                          /\ out_dir' = d
                          /\ xpc' = "source"
                          /\ xi' = 1
                          /\ errors' = <<>>
                          /\ xfiles0' = xfiles
                          /\ UNCHANGED <<xfiles, images, xf, ximg, attempts, xfaults>>
                ELSE \* lines 541-564
                     \E target \in XPaths \cup {NoPath} :
                     IF target = NoPath THEN UNCHANGED exvars
                     ELSE LET cur_path == images[1]
                              fmt == c.formats[1]
                              img == load_image(xfiles, cur_path)
                          IN  /\ xcfg' = c
                              /\ xpc' = "done"
                              /\ xfiles0' = xfiles
                              /\ UNCHANGED <<images, out_dir, xi, xf, ximg, errors>>
                              /\ IF img = NoFile
                                 THEN UNCHANGED <<xfiles, attempts, xfaults>>
                                 ELSE \E r \in _save_one(xfiles, img, target, fmt, c, SaveMayRaise) :
                                      /\ xfiles' = r.files
                                      /\ attempts' = Append(attempts,
                                             Attempt("single", cur_path, fmt, r.mode, target, r.ok))
                                      /\ xfaults' = IF r.ok THEN xfaults ELSE xfaults + 1
    /\ UNCHANGED xother

\* _export_batch lines 613-618 and 625-628: the next source is decoded, or the
\* batch ends with its message box
ExportSource ==
    /\ xpc = "source"
    /\ IF xi > Len(images)
       THEN /\ xpc' = "done"
            /\ UNCHANGED <<xi, xf, ximg, errors>>
       ELSE LET path == images[xi]
                img == load_image(xfiles, path)
            IN  IF img = NoFile
                THEN /\ errors' = errors \o OpenErrors(path, xcfg.formats)
                     /\ xi' = xi + 1
                     /\ UNCHANGED <<xpc, xf, ximg>>
                ELSE /\ ximg' = img
                     /\ xf' = 1
                     /\ xpc' = "format"
                     /\ UNCHANGED <<xi, errors>>
    /\ UNCHANGED <<xfiles, images, xcfg, out_dir, attempts, xfiles0, xfaults>>
    /\ UNCHANGED xother

\* _export_batch lines 619-624: one format of the current source
ExportFormat ==
    /\ xpc = "format"
    /\ IF xf > Len(xcfg.formats)
       THEN /\ xi' = xi + 1
            /\ xpc' = "source"
            /\ UNCHANGED <<xfiles, xf, errors, attempts, xfaults>>
       ELSE LET path == images[xi]
                fmt == xcfg.formats[xf]
                target == out_path(out_dir, path, fmt)
            IN  \E r \in _save_one(xfiles, ximg, target, fmt, xcfg, SaveMayRaise) :
                /\ xfiles' = r.files
                /\ attempts' = Append(attempts, Attempt("batch", path, fmt, r.mode, target, r.ok))
                /\ errors' = IF r.ok THEN errors
                             ELSE Append(errors, <<"save", [base |-> path.base, ext |-> path.ext], fmt>>)
                /\ xfaults' = IF r.ok THEN xfaults ELSE xfaults + 1
                /\ xf' = NextFormat(xf, r.ok, xcfg.formats)
                /\ UNCHANGED <<xi, xpc>>
    /\ UNCHANGED <<images, xcfg, out_dir, ximg, xfiles0>>
    /\ UNCHANGED xother

\* lines 65-71: the image handed to img.save(buf, fmt)
estimate_encoded_size(img, fmt) ==
    Encoded(IF fmt = "JPEG" THEN convert(img, "RGB") ELSE img, fmt)

\* estimate_encoded_size applied to a decoded image and a format
EstimateSize ==
    /\ xpc = "idle"
    /\ \E q \in XPaths, fmt \in Formats :
         /\ IsImg(xfiles[q])
         /\ attempts' = Append(attempts,
                Attempt("estimate", q, fmt,
                        ModeOf(estimate_encoded_size(load_image(xfiles, q), fmt)), NoPath, TRUE))
    /\ xpc' = "done"
    /\ UNCHANGED <<xfiles, images, xcfg, out_dir, xi, xf, ximg, errors, xfiles0, xfaults>>
    /\ UNCHANGED xother

\* convert_png_to_jpg.py lines 6-12: open, convert("RGB"), resize, save as
\* JPEG; an exception leaves the function
resize_and_convert ==
    /\ xpc = "idle"
    /\ \E input_path \in XPaths, d \in Dirs :
         LET output_path == XPath(d, input_path.base, ".jpg")
             img == load_image(xfiles, input_path)
         IN  /\ xfiles[input_path] # NoFile
             /\ IF img = NoFile
                THEN UNCHANGED <<xfiles, attempts, xfaults>>
                ELSE LET im == convert(img, "RGB") IN
                     \E raise \in IF SaveMayRaise THEN BOOLEAN ELSE {FALSE} :
                     IF raise
                     THEN /\ \E left \in LeftBySave(xfiles, output_path) :
                               xfiles' = [xfiles EXCEPT ![output_path] = left]
                          /\ attempts' = Append(attempts,
                                 Attempt("script", input_path, "JPEG", ModeOf(im), output_path, FALSE))
                          /\ xfaults' = xfaults + 1
                     ELSE /\ xfiles' = [xfiles EXCEPT ![output_path] = Encoded(im, "JPEG")]
                          /\ attempts' = Append(attempts,
                                 Attempt("script", input_path, "JPEG", ModeOf(im), output_path, TRUE))
                          /\ UNCHANGED xfaults
    /\ xpc' = "done"
    /\ xfiles0' = xfiles
    /\ UNCHANGED <<images, xcfg, out_dir, xi, xf, ximg, errors>>
    /\ UNCHANGED xother

NextExport ==
    \/ import_files
    \/ export_dialog
    \/ ExportSource
    \/ ExportFormat
    \/ EstimateSize
    \/ resize_and_convert

\* at most MaxSources of the SourcePaths exist, each an image file of its
\* format or a file that does not decode
InitialFiles ==
    UNION {{[q \in XPaths |-> IF q \in S THEN c[q] ELSE NoFile] :
              c \in {cc \in [S -> UNION {SourceContents(q) : q \in S}] :
                        \A q \in S : cc[q] \in SourceContents(q)}} :
           S \in {T \in SUBSET SourcePaths : Cardinality(T) <= MaxSources}}

InitExport ==
    /\ InitWindow /\ NoFiles /\ NoResize /\ run_limit = 0
    /\ xfiles \in InitialFiles
    /\ InitDeltaPix

SpecExport == InitExport /\ [][NextExport]_vars


(***************************************************************************)
(* What an observer of the current worker sees.                            *)
(***************************************************************************)
IsOutcome(line) == line[1] \in {"Converted", "Skip", "Failed"}
OutcomeLines == SelectSeq(log, IsOutcome)
Logged(tag, k) == \E n \in 1..Len(log) : log[n] = <<tag, k>>
Converted(k) == Logged("Converted", k)
Skipped(k) == Logged("Skip", k)
Failed(k) == Logged("Failed", k)
Processed(k) == Converted(k) \/ Skipped(k) \/ Failed(k)
Touched(k) == \E op \in ops : op[2] = k
Running == pc # "none"
ListedStems == [n \in 1..Len(pngs) |-> pngs[n].stem]
OutcomeStems == [n \in 1..Len(OutcomeLines) |-> OutcomeLines[n][2]]
WebpName(k) == dst_name(PngName(k))

(***************************************************************************)
(* C1.  In-place mode with keep_backup = true: after an item that ends     *)
(* Converted, the bytes the original had at batch start are at the backup  *)
(* path; after an item that ends Failed, those bytes are still at the      *)
(* original path or at the backup path.  For any initial folder contents,  *)
(* a backup folder that already holds a file of the same name included.    *)
(***************************************************************************)
C1_BackupSafety ==
    (Running /\ cfg.keep_backup) =>
        \A k \in Stems :
            LET f == PngName(k) IN
            /\ Converted(k) => backup[f] = fs0.folder[f]
            /\ Failed(k) => fs0.folder[f] \in {folder[f], backup[f]}

(***************************************************************************)
(* C2.  In-place mode with keep_backup = false: the original is deleted    *)
(* only after _convert_one returned for that item; if the conversion       *)
(* raises, the original is still at its path with unchanged bytes and the  *)
(* item is logged as Failed.                                               *)
(***************************************************************************)
C2_DeleteOnlyAfterSuccess ==
    (Running /\ ~cfg.keep_backup) =>
        \A k \in Stems :
            LET f == PngName(k) IN
            /\ <<"remove", k>> \in ops => Converted(k)
            /\ folder[f] # fs0.folder[f] => (Converted(k) /\ folder[f] = NoFile)
            /\ (<<"decode", k>> \in ops /\ ~Converted(k)) =>
                   /\ Failed(k)
                   /\ folder[f] = fs0.folder[f]
                   /\ folder[f] # NoFile
            /\ backup = fs0.backup

C2_Witness ==
    /\ Running /\ ~cfg.keep_backup
    /\ \E k \in Stems : Failed(k) /\ <<"decode", k>> \in ops
    /\ \E k \in Stems : Converted(k) /\ <<"removed", k>> \in ops

(***************************************************************************)
(* C3.  Skip-without-decode: an item whose target .webp exists when it is  *)
(* reached, with overwrite = false, gets the Skip line and a progress      *)
(* event and no decode, move, write or delete; the output and the source   *)
(* are left as they were.                                                  *)
(***************************************************************************)
C3_SkipWithoutDecode ==
    Running =>
        \A k \in Stems :
            LET f == PngName(k)
                d == WebpName(k)
            IN  /\ (Processed(k) /\ ~cfg.overwrite /\ fs0.folder[d] # NoFile) => Skipped(k)
                /\ Skipped(k) =>
                       /\ ~cfg.overwrite /\ fs0.folder[d] # NoFile
                       /\ ~Touched(k)
                       /\ encodedFrom[k] = NoFile
                       /\ folder[f] = fs0.folder[f]
                       /\ folder[d] = fs0.folder[d]
                       /\ backup[f] = fs0.backup[f]
                       /\ \E n \in 1..Len(progress) : OutcomeLines[n] = <<"Skip", k>>

C3_Witness ==
    /\ pc = "finished"
    /\ \E k \in Stems : Skipped(k)
    /\ \E k \in Stems : Converted(k)

(***************************************************************************)
(* C4.  A failing item never aborts the batch: the items are processed in  *)
(* enumeration order whatever fails, all of them unless stop is observed,  *)
(* and the run ends with done, not with error.                             *)
(***************************************************************************)
C4_FailureNeverAborts ==
    i >= 1 =>
        /\ errorEv = 0
        /\ OutcomeStems = SubSeq(ListedStems, 1, Len(OutcomeLines))
        /\ Len(OutcomeLines) = i - 1
        /\ pc = "finished" =>
               /\ doneEv = <<converted>>
               /\ ~Logged("Stopped", "") => Len(OutcomeLines) = Len(pngs)

C4_Witness ==
    /\ pc = "finished"
    /\ Len(OutcomeLines) = 2
    /\ OutcomeLines[1][1] = "Failed"
    /\ OutcomeLines[2][1] = "Converted"
    /\ doneEv = <<1>>

(***************************************************************************)
(* C5.  Cooperative cancellation: the flag is tested before each item;     *)
(* once the worker has seen it, no later item is moved, decoded, written   *)
(* or deleted; an item in flight when stop() is called completes, the      *)
(* delete after the encode included; the run ends with done carrying the   *)
(* number converted so far.                                                *)
(***************************************************************************)
C5_CooperativeStop ==
    i >= 1 =>
        \* no item is started with the flag already set
        /\ (pc = "item" /\ stopped) => stop_i = i
        \* once seen: finished with done, the later items untouched
        /\ Logged("Stopped", "") =>
               /\ pc = "finished"
               /\ stopped
               /\ doneEv = <<converted>>
               /\ errorEv = 0
               /\ \A n \in i..Len(pngs) :
                      LET k == pngs[n].stem IN
                      /\ ~Touched(k) /\ ~Processed(k)
                      /\ folder[pngs[n]] = fs0.folder[pngs[n]]
                      /\ folder[dst_name(pngs[n])] = fs0.folder[dst_name(pngs[n])]
                      /\ backup[pngs[n]] = fs0.backup[pngs[n]]
        \* the item in flight at stop() has run all its steps
        /\ (stop_i > 0 /\ i > stop_i) =>
               LET k == pngs[stop_i].stem IN
               /\ Processed(k)
               /\ Len(progress) >= stop_i
               /\ (Converted(k) /\ ~cfg.keep_backup) => <<"remove", k>> \in ops
        /\ pc = "finished" =>
               doneEv = <<Cardinality({k \in Stems : Converted(k)})>>

C5_Witness ==
    /\ pc = "finished"
    /\ Len(pngs) = 2
    /\ stop_i = 1
    /\ Logged("Stopped", "")
    /\ ~cfg.keep_backup
    /\ Converted(pngs[1].stem)
    /\ <<"removed", pngs[1].stem>> \in ops
    /\ doneEv = <<1>>

(***************************************************************************)
(* C6.  A missing root folder is detected once, before any work: one error *)
(* event, no done event, no progress event, no change to the files.        *)
(***************************************************************************)
C6_MissingFolder ==
    (Running /\ ~fs0.folderExists) =>
        /\ doneEv = <<>>
        /\ progress = <<>>
        /\ log = <<>>
        /\ ops = {}
        /\ Snapshot = fs0
        /\ pc \in {"start", "finished"}
        /\ errorEv = (IF pc = "finished" THEN 1 ELSE 0)
        /\ \A n \in 1..Len(inbox) : inbox[n][1] = "error"
        /\ Len(inbox) <= 1

C6_Witness ==
    /\ pc = "finished"
    /\ ~fs0.folderExists
    /\ errorEv = 1
    /\ cfg.keep_backup

(***************************************************************************)
(* C7.  Progress stream: one progress event per processed item, values     *)
(* non-decreasing and within 0..100, and 100 is reached exactly when the   *)
(* last enumerated item has been processed.                                *)
(***************************************************************************)
C7_ProgressStream ==
    /\ Len(progress) = Len(OutcomeLines)
    /\ \A n \in 1..Len(progress) :
           /\ progress[n] \in 0..100
           /\ n > 1 => progress[n - 1] <= progress[n]
    /\ (\E n \in 1..Len(progress) : progress[n] = 100)
           <=> (Len(pngs) > 0 /\ Len(OutcomeLines) = Len(pngs))

C7_Witness ==
    /\ progress = <<50, 100>>
    /\ OutcomeLines[1][1] = "Failed"
    /\ OutcomeLines[2][1] = "Skip"

(***************************************************************************)
(* C8.  Re-run: after a first batch with keep_backup = true and            *)
(* overwrite = false on a folder holding a.png, which wrote a.webp and     *)
(* relocated a.png to the backup folder, a second batch with               *)
(* overwrite = false emits Skip (already exists) for a.webp and ends with  *)
(* converted count 0.                                                      *)
(***************************************************************************)
RerunOfA ==
    /\ runs >= 2
    /\ pc = "finished"
    /\ prev.keep_backup /\ ~prev.overwrite
    /\ prev.relocated = {"a"}
    /\ fs0.folder[PngName("b")] = NoFile
    /\ fs0.backup[PngName("b")] = NoFile
    /\ ~cfg.overwrite

C8_RerunSkips ==
    RerunOfA => (Skipped("a") /\ doneEv = <<0>>)

\* C8 as amended: the second batch finds no PNG file in the folder (a.png
\* is in the backup folder), logs that and nothing else, changes no file,
\* and ends with converted count 0
C8_RerunFindsNoPng ==
    RerunOfA =>
        /\ log = <<(<<"NoPng", "">>)>>
        /\ ~Skipped("a")
        /\ doneEv = <<0>>
        /\ errorEv = 0
        /\ ops = {}
        /\ Snapshot = fs0
        /\ fs0.folder[PngName("a")] = NoFile
        /\ fs0.backup[PngName("a")] \in PngContents
        /\ fs0.folder[WebpName("a")] = Webp(fs0.backup[PngName("a")][2], TRUE)
               \/ fs0.folder[WebpName("a")] = Webp(fs0.backup[PngName("a")][2], FALSE)

C8_Witness == RerunOfA /\ doneEv = <<0>>

(***************************************************************************)
(* C9.  Monotonic clamp of _apply_resize: the resulting width is at most   *)
(* max_w when max_w > 0, the resulting height at most max_h when           *)
(* max_h > 0, and neither exceeds the percent-scaled dimension.            *)
(***************************************************************************)
\* the percent-scaled dimension in exact arithmetic: floor, at least 1
PctScaled(d, pct) == IF pct # 100 THEN Max(1, (d * pct) \div 100) ELSE d

C9_MonotonicClamp ==
    rs_n >= 1 =>
        /\ rs.max_w > 0 => rs.size[1] <= rs.max_w
        /\ rs.max_h > 0 => rs.size[2] <= rs.max_h
        /\ rs.size[1] <= PctScaled(rs_prev[1], rs.pct)
        /\ rs.size[2] <= PctScaled(rs_prev[2], rs.pct)

C9_Witness ==
    /\ rs_n = 1
    /\ rs_prev = <<100, 60>> /\ rs.pct = 50
    /\ rs.max_w = 40 /\ rs.max_h = 15
    /\ rs.size[1] < 40 /\ rs.size[2] = 15

(***************************************************************************)
(* C10.  _apply_resize computes the dimensions of the reference            *)
(* compute_resize: floor(dim * percent / 100), at least 1, when            *)
(* percent # 100; then the uniform factor min(1, max_w/w', max_h/h')       *)
(* applied to both axes when it is below 1.                                *)
(***************************************************************************)
\* the reference, in exact rational arithmetic: the factor is num/den
compute_resize(size, pct, max_w, max_h) ==
    LET w == PctScaled(size[1], pct)
        h == PctScaled(size[2], pct)
        byW == max_w > 0 /\ w > max_w
        byH == max_h > 0 /\ h > max_h
        \* max_w/w <= max_h/h  iff  max_w*h <= max_h*w
        useW == byW /\ (~byH \/ max_w * h <= max_h * w)
        num == IF useW THEN max_w ELSE max_h
        den == IF useW THEN w ELSE h
    IN  IF byW \/ byH
        THEN <<(w * num) \div den, (h * num) \div den>>
        ELSE <<w, h>>

C10_SameAsReference ==
    rs_n >= 1 => rs.size = compute_resize(rs_prev, rs.pct, rs.max_w, rs.max_h)

(***************************************************************************)
(* C16.  _apply_resize never produces a degenerate size: for width and     *)
(* height >= 1, percent in 1..100 and max_w, max_h >= 0, both resulting    *)
(* dimensions are >= 1, after the bounding-box step as well as after the   *)
(* percent step.                                                           *)
(***************************************************************************)
C16_NoDegenerateSize ==
    rs_n >= 1 => (rs.size[1] >= 1 /\ rs.size[2] >= 1)

(***************************************************************************)
(* C17.  In-place mode with keep_backup = true: every item that ends       *)
(* Converted was encoded from the bytes its source file held in the source *)
(* folder at batch start, and that source is no longer in the source       *)
(* folder; also when the backup folder already holds a file of that name.  *)
(***************************************************************************)
C17_EncodedFromOriginal ==
    (Running /\ cfg.keep_backup) =>
        \A k \in Stems :
            Converted(k) =>
                /\ encodedFrom[k] = fs0.folder[PngName(k)]
                /\ folder[PngName(k)] = NoFile

(***************************************************************************)
(* C19.  Outcome accounting of the in-place worker: every processed item   *)
(* has exactly one of the lines Converted, Skip, Failed; converted +       *)
(* skipped + failed equals the number of items processed and never exceeds *)
(* total; the count carried by done equals the number of Converted lines;  *)
(* a failed delete after a successful encode still counts as converted and *)
(* adds a warning line.                                                    *)
(***************************************************************************)
CountLines(tag) == Len(SelectSeq(log, LAMBDA line : line[1] = tag))
LinesOf(k) == Len(SelectSeq(log, LAMBDA line : IsOutcome(line) /\ line[2] = k))

C19_OutcomeAccounting ==
    i >= 1 =>
        /\ CountLines("Converted") + CountLines("Skip") + CountLines("Failed") = i - 1
        /\ i - 1 <= Len(pngs)
        /\ \A n \in 1..Len(pngs) :
               LinesOf(pngs[n].stem) = (IF n <= i - 1 THEN 1 ELSE 0)
        /\ converted = CountLines("Converted")
        /\ pc = "finished" => doneEv = <<CountLines("Converted")>>
        /\ \A k \in Stems :
               Logged("Warn", k) =>
                   /\ Converted(k) /\ ~Failed(k)
                   /\ <<"remove", k>> \in ops /\ <<"removed", k>> \notin ops

C19_Witness ==
    /\ pc = "finished"
    /\ Len(pngs) = 2
    /\ Logged("Warn", pngs[1].stem)
    /\ Failed(pngs[2].stem)
    /\ doneEv = <<1>>

(***************************************************************************)
(* C15.  A stop request is harmless after completion: issued when the done *)
(* or error event has been handled it changes no worker or file state and  *)
(* emits no event; issued after run() has returned it changes nothing but  *)
(* the flag of the finished worker; the next batch starts with its flag    *)
(* clear and, with no stop request of its own, processes all its items.    *)
(***************************************************************************)
AfterLateStop ==
    /\ runs >= 2
    /\ prev.late
    /\ pc = "finished"
    /\ ~stopped
    /\ i >= 1

LateStopStep ==
    /\ (~worker /\ ~worker') =>
           UNCHANGED <<fsvars, wkvars, inbox, log, progress, doneEv, errorEv, ops, encodedFrom>>
    /\ (pc = "finished" /\ pc' = "finished") =>
           UNCHANGED <<fsvars, cfg, pngs, i, converted, log, progress, doneEv, errorEv, ops, encodedFrom>>
    /\ runs' # runs => (~stopped' /\ pc' = "start")

C15_LateStopHarmless ==
    /\ [][LateStopStep]_vars
    /\ [](AfterLateStop =>
              /\ ~Logged("Stopped", "")
              /\ Len(OutcomeLines) = Len(pngs)
              /\ doneEv = <<converted>>)

C15_Witness ==
    /\ AfterLateStop
    /\ ~worker
    /\ Len(pngs) >= 1
    /\ \E k \in Stems : Converted(k)

(***************************************************************************)
(* C20.  At most one batch runs at a time in the converter window: from    *)
(* start_convert until the done or error event is handled, Convert and     *)
(* Select Folder are disabled and Stop is enabled, and no worker is        *)
(* started; once the event is handled the window is unlocked, the worker   *)
(* cleared and Stop disabled.                                              *)
(***************************************************************************)
Busy == pc \in {"start", "loop", "item"} \/ inbox # <<>>

C20_OneBatchAtATime ==
    /\ [](/\ Len(inbox) <= 1
          /\ (inbox # <<>> => pc = "finished")
          /\ Busy => (worker /\ ~btn_convert /\ ~btn_pick /\ btn_stop)
          /\ ~Busy => (~worker /\ btn_pick /\ ~btn_stop /\ btn_convert = selected_folder))
    /\ [][runs' # runs => (~Busy /\ Busy')]_vars

C20_Witness ==
    /\ runs = 2
    /\ pc = "finished"
    /\ errorEv = 1
    /\ ~Busy
    /\ btn_convert

(***************************************************************************)
(* What an observer of a DeltaPix export sees.                             *)
(***************************************************************************)
InBatch == out_dir # ""
BatchAttempts == SelectSeq(attempts, LAMBDA a : a.via = "batch")
AttemptsOf(path) == SelectSeq(BatchAttempts, LAMBDA a : a.src = path)
FormatsTried(path) == [n \in 1..Len(AttemptsOf(path)) |-> AttemptsOf(path)[n].fmt]
OpenEntries(path) == Len(SelectSeq(errors, LAMBDA e : e = <<"open", path>>))
OpenFailed(path) == OpenEntries(path) > 0
SaveEntries == SelectSeq(errors, LAMBDA e : e[1] = "save")
FailedAttempts == SelectSeq(BatchAttempts, LAMBDA a : ~a.ok)
\* the source at position n has had its turn
Visited(n) == n < xi \/ xpc = "done"
\* the file did not decode at any time of the batch
Undecodable(path) == ~IsImg(xfiles0[path]) /\ xfiles[path] = xfiles0[path]

(***************************************************************************)
(* C11.  JPEG format invariant: on every path that encodes JPEG            *)
(* (_save_one, estimate_encoded_size, resize_and_convert), for every input *)
(* colour mode and every value of drop_alpha, the image handed to the      *)
(* encoder is in mode RGB, and so is every JPEG file written.              *)
(***************************************************************************)
C11_JpegIsOpaqueRGB ==
    /\ \A n \in 1..Len(attempts) :
           attempts[n].fmt = "JPEG" => attempts[n].mode = "RGB"
    /\ \A q \in XPaths :
           (xfiles[q] # xfiles0[q] /\ IsImg(xfiles[q]) /\ xfiles[q][2] = "JPEG")
               => ModeOf(xfiles[q]) = "RGB"

C11_Witness ==
    /\ xpc = "done"
    /\ InBatch
    /\ ~xcfg.drop_alpha
    /\ \E n \in 1..Len(attempts) :
           /\ attempts[n].fmt = "JPEG" /\ attempts[n].ok
           /\ IsImg(xfiles0[attempts[n].src])
           /\ ModeOf(xfiles0[attempts[n].src]) \in AlphaModes
           /\ xfiles[attempts[n].out] = Img("JPEG", "RGB", attempts[n].src)

(***************************************************************************)
(* C12.  Partial-failure isolation in multi-destination export: a failing  *)
(* _save_one records one error for its (source, format) pair and nothing   *)
(* else; every other requested format of that source is still attempted,   *)
(* and every later source still has its turn and, when it decodes, all its *)
(* formats attempted.                                                      *)
(***************************************************************************)
C12_FailureIsolation ==
    InBatch =>
        /\ \A n \in 1..Len(images) :
               LET path == images[n] IN
               IF Visited(n)
               THEN \/ OpenFailed(path) /\ FormatsTried(path) = <<>>
                    \/ ~OpenFailed(path) /\ FormatsTried(path) = xcfg.formats
               ELSE IF n = xi /\ xpc = "format"
               THEN ~OpenFailed(path) /\ FormatsTried(path) = SubSeq(xcfg.formats, 1, xf - 1)
               ELSE ~OpenFailed(path) /\ FormatsTried(path) = <<>>
        /\ SaveEntries = [n \in 1..Len(FailedAttempts) |->
                             <<"save", [base |-> FailedAttempts[n].src.base,
                                        ext |-> FailedAttempts[n].src.ext],
                               FailedAttempts[n].fmt>>]
        /\ xpc = "done" => xi = Len(images) + 1

C12_Witness ==
    /\ xpc = "done"
    /\ InBatch
    /\ Len(images) = 2
    /\ Len(xcfg.formats) = 2
    /\ Len(BatchAttempts) = 4
    /\ ~BatchAttempts[1].ok
    /\ BatchAttempts[2].ok /\ BatchAttempts[3].ok /\ BatchAttempts[4].ok
    /\ Len(errors) = 1

C14_SourcesUntouched ==
    InBatch =>
        \A n \in 1..Len(images) : xfiles[images[n]] = xfiles0[images[n]]

(***************************************************************************)
(* C18.  Multi-destination export writes one distinct output file per      *)
(* successful (source, format) pair: two different pairs never write to    *)
(* the same output path, so the number of files written equals the number  *)
(* of successful pairs; also for sources that share a base name.           *)
(***************************************************************************)
C18_DistinctOutputs ==
    InBatch =>
        /\ \A m \in 1..Len(BatchAttempts), n \in 1..Len(BatchAttempts) :
               (m # n /\ BatchAttempts[m].ok /\ BatchAttempts[n].ok)
                   => BatchAttempts[m].out # BatchAttempts[n].out
        /\ Cardinality({BatchAttempts[n].out : n \in {m \in 1..Len(BatchAttempts) : BatchAttempts[m].ok}})
               = Len(BatchAttempts) - Len(FailedAttempts)

====
